---- MODULE Spec2Model ----
(***************************************************************************)
(* A model of the MAX31855 thermocouple driver                             *)
(* (src/software/adafruit_max31855.py).                                    *)
(*                                                                         *)
(* One driver object shares an SPI bus with one other bus user.  A call of *)
(* one of the three properties (temperature, reference_temperature,        *)
(* temperature_NIST) runs through the steps of _read: enter the `with`     *)
(* block (lock the bus), readinto(self.data), leave the block (unlock),    *)
(* test the fault bits, unpack and shift; temperature_NIST does this twice *)
(* and then computes the NIST correction.                                  *)
(*                                                                         *)
(* Arithmetic.  Byte and integer operations are exact.  temperature and    *)
(* reference_temperature are exact binary fractions, kept as num/den.      *)
(* The floating-point voltages of temperature_NIST are kept in fixed point,*)
(* in units of 1E-5 mV.  VREF is evaluated by Horner's rule on TAMB/128    *)
(* with the source coefficients rescaled to c_n * 128^n * 1E5, and exp()   *)
(* by its Taylor series; every intermediate value fits 32 bits.  The       *)
(* fixed-point VREF is within 7 units (0.07 microvolt) of the              *)
(* floating-point one for each of the 4096 reference readings.  The final  *)
(* power series is a function of the selected DCOEF table and VTOTAL only; *)
(* the returned temperature is represented by that pair (fields table,     *)
(* terms and volt of the outcome).                                         *)
(*                                                                         *)
(* Spec is the driver with the other bus user.  SpecHistory is the same    *)
(* machine in which a finished call may be remembered in prev, so that two *)
(* calls of one run can be compared.                                       *)
(***************************************************************************)
EXTENDS Integers, Sequences, FiniteSets, TLC

VARIABLES
    pc,          \* position of the driver's thread inside the current call
    entry,       \* property being (or last) called, "none" before any call
    internal,    \* the `internal` argument of the _read in progress
    data,        \* self.data, the 4-byte buffer of the driver object
    locked,      \* the lock of the shared SPI bus
    driverHolds, \* the driver is inside its `with self.spi_device` block
    otherHolds,  \* the other bus user is inside its session
    otherSent,   \* bytes the other user has transferred in its session
    frames,      \* frames delivered by the bus to the current call, in order
    TR,          \* local TR of temperature_NIST, <<>> while unassigned
    TAMB,        \* local TAMB of temperature_NIST, <<>> while unassigned
    VTOTAL,      \* local VTOTAL of temperature_NIST, <<>> while unassigned
    vrefSet,     \* which VREF coefficient set the call evaluated, "" if none
    outcome,     \* what the last finished call returned or raised
    prev         \* record of one earlier finished call (history)

vars == <<pc, entry, internal, data, locked, driverHolds, otherHolds,
          otherSent, frames, TR, TAMB, VTOTAL, vrefSet, outcome, prev>>

----------------------------------------------------------------------------
(* Bounds of the model *)

\* longest session of the other bus user, in bytes
MaxOtherBytes == 2

----------------------------------------------------------------------------
(* The frames the device can deliver.  A frame is <<data[0], data[1],      *)
(* data[2], data[3]>>.                                                     *)

\* 0x0C 0xD0 0x00 0x00: thermocouple 205.0, reference 0.0
FrameExample == <<12, 208, 0, 0>>

\* the same reading with the two reserved bits set (data[1] bit 1, data[3] bit 3)
FrameReserved == <<12, 210, 0, 8>>

\* both words negative: thermocouple -0.25, reference -0.0625
FrameNegative == <<255, 252, 255, 240>>

\* readings whose total voltage falls on or next to the band limits
FramesBand ==
    { <<247, 36, 43, 224>>,    \* TR -141.75, TAMB 43.875 : VTOTAL -5.89100
      <<247, 36, 59, 192>>,    \* TR -141.75, TAMB 59.75  : VTOTAL -5.89101
      <<0, 8, 13, 176>>,       \* TR 0.5,     TAMB 13.6875: VTOTAL  0.00000
      <<255, 240, 238, 64>>,   \* TR -1.0,    TAMB -17.75 : VTOTAL  0.00001
      <<31, 80, 30, 112>>,     \* TR 501.0,   TAMB 30.4375: VTOTAL 20.64400
      <<31, 80, 80, 192>>,     \* TR 501.0,   TAMB 80.75  : VTOTAL 20.64401
      <<83, 40, 25, 16>>,      \* TR 1330.5,  TAMB 25.0625: VTOTAL 54.88600
      <<83, 40, 97, 64>> }     \* TR 1330.5,  TAMB 97.25  : VTOTAL 54.88601

\* the example frame with every non-empty combination of the four fault bits
FramesFault ==
    { <<12, 208 + g, 0, b>> : g \in 0..1, b \in 0..7 } \ { FrameExample }

Frames ==
    { FrameExample, FrameReserved, FrameNegative } \cup FramesBand \cup FramesFault

----------------------------------------------------------------------------
(* Integer helpers *)

\* bit k of the byte or word x
Bit(x, k) == (x \div (2 ^ k)) % 2

\* a 16-bit word read as unsigned, the result of a '>HH' format
Unsigned16(hi, lo) == hi * 256 + lo

\* struct.unpack('>hh'): a big-endian two's complement 16-bit word
Signed16(hi, lo) ==
    IF hi * 256 + lo >= 32768 THEN hi * 256 + lo - 65536 ELSE hi * 256 + lo

\* Python's >> on int: floor division by 2^k, sign preserving
ShiftRight(x, k) == x \div (2 ^ k)

----------------------------------------------------------------------------
(* _read, lines 66-82 *)

ErrOpen   == "thermocouple not connected"
ErrGround == "short circuit to ground"
ErrPower  == "short circuit to power"
ErrFault  == "faulty reading"
ErrRange  == "Total thermoelectric voltage out of range"

\* variant: the test of data[3] & 0x04 is missing
FaultOfNoPower(d) ==
    IF Bit(d[4], 0) = 1 THEN ErrOpen
    ELSE IF Bit(d[4], 1) = 1 THEN ErrGround
    ELSE IF Bit(d[2], 0) = 1 THEN ErrFault
    ELSE ""

\* variant: the generic fault bit is tested first
FaultOfGenericFirst(d) ==
    IF Bit(d[2], 0) = 1 THEN ErrFault
    ELSE IF Bit(d[4], 0) = 1 THEN ErrOpen
    ELSE IF Bit(d[4], 1) = 1 THEN ErrGround
    ELSE IF Bit(d[4], 2) = 1 THEN ErrPower
    ELSE ""

\* the if-chain of lines 69-76 on the buffer d; "" when no branch raises.
\* d[4] is data[3] and d[2] is data[1] (sequences count from 1).
FaultOf(d) ==
    IF Bit(d[4], 0) = 1 THEN ErrOpen
    ELSE IF Bit(d[4], 1) = 1 THEN ErrGround
    ELSE IF Bit(d[4], 2) = 1 THEN ErrPower
    ELSE IF Bit(d[2], 0) = 1 THEN ErrFault
    ELSE ""

\* variant: the words are unpacked unsigned ('>HH')
UnpackUnsigned(d) == <<Unsigned16(d[1], d[2]), Unsigned16(d[3], d[4])>>

\* line 77: temp, refer = struct.unpack('>hh', self.data)
Unpack(d) == <<Signed16(d[1], d[2]), Signed16(d[3], d[4])>>

\* lines 78-82: refer >>= 4, temp >>= 2, and the value _read returns
ReadValue(d, intern) ==
    IF intern THEN ShiftRight(Unpack(d)[2], 4) ELSE ShiftRight(Unpack(d)[1], 2)

----------------------------------------------------------------------------
(* Outcomes of a call.  A temperature or reference_temperature value is    *)
(* num/den; a temperature_NIST value is the power series of DCOEF table    *)
(* `table` (with `terms` coefficients) at `volt`; an error carries its     *)
(* message and, for the range error, the formatted VTOTAL in `volt`.       *)

NoOutcome ==
    [kind |-> "none", error |-> "", num |-> 0, den |-> 1,
     table |-> 0, terms |-> 0, volt |-> 0]

Ratio(n, d) == [NoOutcome EXCEPT !.kind = "value", !.num = n, !.den = d]

Raised(msg, v) == [NoOutcome EXCEPT !.kind = "error", !.error = msg, !.volt = v]

Series(t, n, v) ==
    [NoOutcome EXCEPT !.kind = "value", !.table = t, !.terms = n, !.volt = v]

----------------------------------------------------------------------------
(* temperature_NIST, lines 103-171 *)

\* 0.041276 mV per degree, in units of 1E-9 mV
Sensitivity == 41276

\* line 107: VOUT = 0.041276 * (TR - TAMB), with TR = tr/4 and TAMB = tamb/16
VOUT(tr, tamb) == (Sensitivity * (4 * tr - tamb)) \div 160

\* lines 110-119: coefficients of TAMB^0 .. TAMB^9, as c_n * 128^n * 1E5
CoefExp == <<-1760, 498191, 30407, -20858, 8547, -1927, 247, -18, 1, 0>>

\* lines 122-131: coefficients of TAMB^0 .. TAMB^10, as c_n * 128^n * 1E5
CoefPlain ==
    <<0, 504962, 38703, -68910, -133962, -231959, -252493, -175015,
      -75312, -18345, -1927>>

\* sum of coefs[n] * (tamb/2048)^(n-1) from term n on, with TAMB/128 = tamb/2048
RECURSIVE PolyFrom(_, _, _)
PolyFrom(coefs, n, tamb) ==
    IF n > Len(coefs) THEN 0
    ELSE coefs[n] + (PolyFrom(coefs, n + 1, tamb) * tamb) \div 2048

\* line 120: 0.1183432E-03 * (TAMB - 126.9686)^2, in units of 1E-4
ExpArg(tamb) == ((((tamb * 10 - 20315) ^ 2) \div 1000) * 4623) \div 100000

\* terms k.. of the series of exp(-y), y in units of 1E-4, in units of 2E-5;
\* m is the magnitude of term k-1
RECURSIVE ExpFrom(_, _, _)
ExpFrom(y, k, m) ==
    IF k > 13 THEN 0
    ELSE LET n == (m * y) \div (k * 10000)
         IN  (IF k % 2 = 1 THEN 0 - n ELSE n) + ExpFrom(y, k + 1, n)

\* line 120: 0.1185976 * math.exp(...)
ExpTerm(tamb) == (11860 * (50000 + ExpFrom(ExpArg(tamb), 1, 50000))) \div 50000

\* variant: the test is TAMB > 0
VrefSetStrict(tamb) == IF tamb > 0 THEN "exp" ELSE "plain"

\* line 109: which coefficient set VREF is computed with
VrefSet(tamb) == IF tamb >= 0 THEN "exp" ELSE "plain"

\* lines 109-131
VREF(tamb) ==
    IF VrefSet(tamb) = "exp" THEN PolyFrom(CoefExp, 1, tamb) + ExpTerm(tamb)
    ELSE PolyFrom(CoefPlain, 1, tamb)

\* the limits of lines 136, 146 and 157, in units of 1E-5 mV
LimitLow == -589100
LimitMid == 2064400
LimitHigh == 5488600

\* variant: the upper limit of every range is excluded
BandUpperOpen(v) ==
    IF LimitLow <= v /\ v < 0 THEN 1
    ELSE IF 0 < v /\ v < LimitMid THEN 2
    ELSE IF LimitMid < v /\ v < LimitHigh THEN 3
    ELSE 0

\* variant: ranges that include their lower and exclude their upper limit
BandHalfOpen(v) ==
    IF LimitLow <= v /\ v < 0 THEN 1
    ELSE IF 0 <= v /\ v < LimitMid THEN 2
    ELSE IF LimitMid <= v /\ v < LimitHigh THEN 3
    ELSE 0

\* lines 136-166: the DCOEF table selected, 0 for the else branch
Band(v) ==
    IF LimitLow <= v /\ v <= 0 THEN 1
    ELSE IF 0 < v /\ v <= LimitMid THEN 2
    ELSE IF LimitMid < v /\ v <= LimitHigh THEN 3
    ELSE 0

\* the number of coefficients of each DCOEF tuple (lines 137-164)
DcoefTerms == <<9, 10, 7>>

----------------------------------------------------------------------------
(* The state machine *)

Entries == {"temperature", "reference_temperature", "temperature_NIST"}

NoCall == [entry |-> "none", frames |-> <<>>, outcome |-> NoOutcome]

\* lines 62-64: a fresh driver with a zeroed buffer, on an idle bus
Init ==
    /\ pc = "idle"
    /\ entry = "none"
    /\ internal = FALSE
    /\ data = <<0, 0, 0, 0>>
    /\ locked = FALSE
    /\ driverHolds = FALSE
    /\ otherHolds = FALSE
    /\ otherSent = 0
    /\ frames = <<>>
    /\ TR = <<>>
    /\ TAMB = <<>>
    /\ VTOTAL = <<>>
    /\ vrefSet = ""
    /\ outcome = NoOutcome
    /\ prev = NoCall

\* the caller reads property e (lines 85, 90, 95); temperature_NIST starts
\* with self.temperature (line 103).  With keep, the call that just finished
\* is remembered in prev.
Call(e, keep) ==
    /\ pc = "idle"
    /\ pc' = "enter"
    /\ entry' = e
    /\ internal' = (e = "reference_temperature")
    /\ frames' = <<>>
    /\ TR' = <<>>
    /\ TAMB' = <<>>
    /\ VTOTAL' = <<>>
    /\ vrefSet' = ""
    /\ outcome' = NoOutcome
    /\ prev' = IF keep /\ entry # "none"
               THEN [entry |-> entry, frames |-> frames, outcome |-> outcome]
               ELSE prev
    /\ UNCHANGED <<data, locked, driverHolds, otherHolds, otherSent>>

\* line 67: `with self.spi_device as spi` waits for the bus lock and takes it
Enter ==
    /\ pc = "enter"
    /\ ~locked
    /\ locked' = TRUE
    /\ driverHolds' = TRUE
    /\ pc' = "readinto"
    /\ UNCHANGED <<entry, internal, data, otherHolds, otherSent, frames,
                   TR, TAMB, VTOTAL, vrefSet, outcome, prev>>

\* variant: a status byte holding a fault is kept, not overwritten
ReadIntoLatched(f) ==
    /\ pc = "readinto"
    /\ data' = <<f[1], f[2], f[3], IF data[4] % 8 # 0 THEN data[4] ELSE f[4]>>
    /\ frames' = Append(frames, f)
    /\ pc' = "exit"
    /\ UNCHANGED <<entry, internal, locked, driverHolds, otherHolds, otherSent,
                   TR, TAMB, VTOTAL, vrefSet, outcome, prev>>

\* line 68: spi.readinto(self.data) fills the buffer with the frame f
ReadInto(f) ==
    /\ pc = "readinto"
    /\ data' = f
    /\ frames' = Append(frames, f)
    /\ pc' = "exit"
    /\ UNCHANGED <<entry, internal, locked, driverHolds, otherHolds, otherSent,
                   TR, TAMB, VTOTAL, vrefSet, outcome, prev>>

\* variant: the block is left without releasing the bus
ExitHolding ==
    /\ pc = "exit"
    /\ pc' = "decode"
    /\ UNCHANGED <<entry, internal, data, locked, driverHolds, otherHolds,
                   otherSent, frames, TR, TAMB, VTOTAL, vrefSet, outcome, prev>>

\* lines 67-68: the end of the `with` block releases the bus
Exit ==
    /\ pc = "exit"
    /\ locked' = FALSE
    /\ driverHolds' = FALSE
    /\ pc' = "decode"
    /\ UNCHANGED <<entry, internal, data, otherHolds, otherSent, frames,
                   TR, TAMB, VTOTAL, vrefSet, outcome, prev>>

\* variant: the reference value is decoded from the frame already in the buffer
ReferenceReadCached == "decode"

\* line 105: TAMB = self.reference_temperature begins a second _read
ReferenceRead == "enter"

\* variant: a fault is replaced by a reading of zero
DecodeDefault ==
    /\ pc = "decode"
    /\ LET raw == IF FaultOf(data) # "" THEN 0 ELSE ReadValue(data, internal) IN
       CASE entry = "temperature" ->
               /\ outcome' = Ratio(raw, 4)
               /\ pc' = "idle"
               /\ UNCHANGED <<internal, TR, TAMB>>
         [] entry = "reference_temperature" ->
               /\ outcome' = Ratio(raw, 16)
               /\ pc' = "idle"
               /\ UNCHANGED <<internal, TR, TAMB>>
         [] entry = "temperature_NIST" /\ ~internal ->
               /\ TR' = <<raw>>
               /\ internal' = TRUE
               /\ pc' = "enter"
               /\ UNCHANGED <<outcome, TAMB>>
         [] entry = "temperature_NIST" /\ internal ->
               /\ TAMB' = <<raw>>
               /\ pc' = "compute"
               /\ UNCHANGED <<outcome, internal, TR>>
    /\ UNCHANGED <<entry, data, locked, driverHolds, otherHolds, otherSent,
                   frames, VTOTAL, vrefSet, prev>>

\* lines 69-82 and the caller's use of the value (lines 87, 92, 103, 105)
Decode ==
    /\ pc = "decode"
    /\ IF FaultOf(data) # ""
       THEN /\ outcome' = Raised(FaultOf(data), 0)
            /\ pc' = "idle"
            /\ UNCHANGED <<internal, TR, TAMB>>
       ELSE LET raw == ReadValue(data, internal) IN
            CASE entry = "temperature" ->
                    /\ outcome' = Ratio(raw, 4)
                    /\ pc' = "idle"
                    /\ UNCHANGED <<internal, TR, TAMB>>
              [] entry = "reference_temperature" ->
                    /\ outcome' = Ratio(raw, 16)
                    /\ pc' = "idle"
                    /\ UNCHANGED <<internal, TR, TAMB>>
              [] entry = "temperature_NIST" /\ ~internal ->
                    /\ TR' = <<raw>>
                    /\ internal' = TRUE
                    /\ pc' = ReferenceRead
                    /\ UNCHANGED <<outcome, TAMB>>
              [] entry = "temperature_NIST" /\ internal ->
                    /\ TAMB' = <<raw>>
                    /\ pc' = "compute"
                    /\ UNCHANGED <<outcome, internal, TR>>
    /\ UNCHANGED <<entry, data, locked, driverHolds, otherHolds, otherSent,
                   frames, VTOTAL, vrefSet, prev>>

\* lines 107-171
Compute ==
    /\ pc = "compute"
    /\ LET v == VOUT(TR[1], TAMB[1]) + VREF(TAMB[1])
           b == Band(v)
       IN  /\ VTOTAL' = <<v>>
           /\ vrefSet' = VrefSet(TAMB[1])
           /\ outcome' = IF b = 0 THEN Raised(ErrRange, v)
                         ELSE Series(b, DcoefTerms[b], v)
    /\ pc' = "idle"
    /\ UNCHANGED <<entry, internal, data, locked, driverHolds, otherHolds,
                   otherSent, frames, TR, TAMB, prev>>

\* another user of the same bus takes the lock when it is free
OtherAcquire ==
    /\ ~locked
    /\ ~otherHolds
    /\ locked' = TRUE
    /\ otherHolds' = TRUE
    /\ otherSent' = 0
    /\ UNCHANGED <<pc, entry, internal, data, driverHolds, frames, TR, TAMB,
                   VTOTAL, vrefSet, outcome, prev>>

\* it transfers a byte with its own device
OtherTransfer ==
    /\ otherHolds
    /\ otherSent < MaxOtherBytes
    /\ otherSent' = otherSent + 1
    /\ UNCHANGED <<pc, entry, internal, data, locked, driverHolds, otherHolds,
                   frames, TR, TAMB, VTOTAL, vrefSet, outcome, prev>>

\* and releases the bus
OtherRelease ==
    /\ otherHolds
    /\ locked' = FALSE
    /\ otherHolds' = FALSE
    /\ otherSent' = 0
    /\ UNCHANGED <<pc, entry, internal, data, driverHolds, frames, TR, TAMB,
                   VTOTAL, vrefSet, outcome, prev>>

\* the driver and the other bus user; no finished call is remembered
Next ==
    \/ \E e \in Entries : Call(e, FALSE)
    \/ Enter
    \/ \E f \in Frames : ReadInto(f)
    \/ Exit
    \/ Decode
    \/ Compute
    \/ OtherAcquire
    \/ OtherTransfer
    \/ OtherRelease

Spec == Init /\ [][Next]_vars

\* the same, where any finished call may be remembered in prev
NextHistory ==
    \/ \E e \in Entries : \E keep \in BOOLEAN : Call(e, keep)
    \/ Enter
    \/ \E f \in Frames : ReadInto(f)
    \/ Exit
    \/ Decode
    \/ Compute
    \/ OtherAcquire
    \/ OtherTransfer
    \/ OtherRelease

SpecHistory == Init /\ [][NextHistory]_vars

----------------------------------------------------------------------------
(* Vocabulary of the properties, stated on the frames the bus delivered    *)
(* and not on the driver's buffer.                                         *)

\* a call has finished (returned or raised)
Done == pc = "idle" /\ entry # "none"

\* the frame of the last bus transaction of the call
LastFrame == frames[Len(frames)]

OpenBit(f)    == f[4] % 2 = 1
GroundBit(f)  == (f[4] \div 2) % 2 = 1
PowerBit(f)   == (f[4] \div 4) % 2 = 1
GenericBit(f) == f[2] % 2 = 1

FaultBits(f) ==
    { k \in {"open", "ground", "power", "generic"} :
        \/ k = "open" /\ OpenBit(f)
        \/ k = "ground" /\ GroundBit(f)
        \/ k = "power" /\ PowerBit(f)
        \/ k = "generic" /\ GenericBit(f) }

FaultMessages == {ErrOpen, ErrGround, ErrPower, ErrFault}

MessageOf(k) ==
    CASE k = "open" -> "thermocouple not connected"
      [] k = "ground" -> "short circuit to ground"
      [] k = "power" -> "short circuit to power"
      [] k = "generic" -> "faulty reading"

\* the call failed with message m and produced no number
FailedWith(m) ==
    /\ outcome.kind = "error"
    /\ outcome.error = m
    /\ outcome.num = 0
    /\ outcome.table = 0

\* bytes hi, lo as a big-endian signed 16-bit integer
WordOf(hi, lo) == (256 * hi + lo) - 65536 * ((256 * hi + lo) \div 32768)

\* w >> k: w with its k low bits cleared (w % 2^k is never negative) is a
\* multiple of 2^k; the shift is that multiple
FloorShift(w, k) == (w - (w % (2 ^ k))) \div (2 ^ k)

W1(f) == WordOf(f[1], f[2])
W2(f) == WordOf(f[3], f[4])

----------------------------------------------------------------------------
(* C1: a frame with exactly one of the four fault bits set makes the call  *)
(* that read it (temperature, reference_temperature or temperature_NIST)   *)
(* fail with the message of that bit, and a frame with any fault bit set   *)
(* makes it fail with a fault message; no number is returned.              *)
C1_FaultFails ==
    Done =>
        /\ \A k \in {"open", "ground", "power", "generic"} :
              FaultBits(LastFrame) = {k} => FailedWith(MessageOf(k))
        /\ FaultBits(LastFrame) # {} =>
              outcome.kind = "error" /\ outcome.error \in FaultMessages

\* temperature_NIST fails with "short circuit to power" on its second frame
C1_Witness ==
    /\ Done
    /\ entry = "temperature_NIST"
    /\ Len(frames) = 2
    /\ FaultBits(LastFrame) = {"power"}
    /\ FailedWith("short circuit to power")

(* C2: on a frame without fault bits temperature is (W1 >> 2) / 4 and     *)
(* reference_temperature is (W2 >> 4) * 0.0625 = (W2 >> 4) / 16, with the  *)
(* words big-endian signed and the shift a floor; negative words give      *)
(* negative values, and 0x0C 0xD0 0x00 0x00 gives 205.0 = 820/4 and 0.0.   *)
C2_Decoding ==
    Done /\ FaultBits(LastFrame) = {} =>
        /\ entry = "temperature" =>
              /\ outcome = Ratio(FloorShift(W1(LastFrame), 2), 4)
              /\ W1(LastFrame) < 0 => outcome.num < 0
              /\ LastFrame = <<12, 208, 0, 0>> => outcome.num = 820
        /\ entry = "reference_temperature" =>
              /\ outcome = Ratio(FloorShift(W2(LastFrame), 4), 16)
              /\ W2(LastFrame) < 0 => outcome.num < 0
              /\ LastFrame = <<12, 208, 0, 0>> => outcome.num = 0

\* temperature returns -0.25 = -1/4 for the word 0xFFFC
C2_Witness ==
    /\ Done
    /\ entry = "temperature"
    /\ frames = << <<255, 252, 255, 240>> >>
    /\ outcome = Ratio(-1, 4)

(* C3: temperature_NIST selects the 9-term table for -5.891 <= VTOTAL <= 0,*)
(* the 10-term table for 0 < VTOTAL <= 20.644, the 7-term table for        *)
(* 20.644 < VTOTAL <= 54.886, and otherwise fails with the out-of-range    *)
(* error carrying VTOTAL, returning no temperature.                        *)
C3_BandSelection ==
    Done /\ VTOTAL # <<>> =>
        LET v == VTOTAL[1] IN
        /\ -589100 <= v /\ v <= 0 => outcome = Series(1, 9, v)
        /\ 0 < v /\ v <= 2064400 => outcome = Series(2, 10, v)
        /\ 2064400 < v /\ v <= 5488600 => outcome = Series(3, 7, v)
        /\ v < -589100 \/ v > 5488600 =>
              /\ FailedWith("Total thermoelectric voltage out of range")
              /\ outcome.volt = v

\* VTOTAL exactly 54.886 mV selects the 7-term table
C3_Witness ==
    /\ Done
    /\ VTOTAL = <<5488600>>
    /\ outcome.kind = "value"
    /\ outcome.table = 3

(* C4: in temperature_NIST a fault of the first read ends the call with a  *)
(* fault after one transaction, before the reference read and before any   *)
(* voltage is computed; a fault of the second read ends it with a fault    *)
(* and no temperature.  A fault never becomes a number.                    *)
C4_ShortCircuit ==
    Done /\ entry = "temperature_NIST" =>
        /\ FaultBits(frames[1]) # {} =>
              /\ Len(frames) = 1
              /\ outcome.kind = "error" /\ outcome.error \in FaultMessages
              /\ TR = <<>> /\ TAMB = <<>> /\ VTOTAL = <<>> /\ vrefSet = ""
        /\ Len(frames) = 2 /\ FaultBits(frames[2]) # {} =>
              /\ outcome.kind = "error" /\ outcome.error \in FaultMessages
              /\ TAMB = <<>> /\ VTOTAL = <<>> /\ vrefSet = ""

\* the first read succeeded and the reference read reported an open circuit
C4_Witness ==
    /\ Done
    /\ entry = "temperature_NIST"
    /\ Len(frames) = 2
    /\ TR # <<>>
    /\ OpenBit(frames[2])
    /\ FailedWith("thermocouple not connected")

(* C5: every _read makes exactly one bus transaction and decodes the frame *)
(* of that transaction: temperature and reference_temperature make one per *)
(* call; temperature_NIST makes two when its first read succeeds, TR coming*)
(* from the first frame and TAMB from the second, and one when it faults.  *)
C5_Transactions ==
    /\ pc = "decode" =>
          /\ Len(frames) = (IF entry = "temperature_NIST" /\ internal THEN 2 ELSE 1)
          /\ data = LastFrame
    /\ Done /\ entry \in {"temperature", "reference_temperature"} =>
          Len(frames) = 1
    /\ Done /\ entry = "temperature_NIST" =>
          IF FaultBits(frames[1]) # {}
          THEN Len(frames) = 1
          ELSE /\ Len(frames) = 2
               /\ TR = <<FloorShift(W1(frames[1]), 2)>>
               /\ FaultBits(frames[2]) = {} =>
                     TAMB = <<FloorShift(W2(frames[2]), 4)>>

\* temperature_NIST returned a value from two different frames
C5_Witness ==
    /\ Done
    /\ entry = "temperature_NIST"
    /\ Len(frames) = 2
    /\ frames[1] # frames[2]
    /\ W2(frames[1]) # W2(frames[2])
    /\ outcome.kind = "value"

(* C6: the driver holds the bus only between entering the `with` block and *)
(* leaving it: not when a call has returned or failed, not while it        *)
(* decodes or computes; it transfers only while it holds the bus, and      *)
(* never while the other user holds it.                                    *)
C6_BusReleased ==
    /\ Done => ~driverHolds
    /\ pc \in {"idle", "enter", "decode", "compute"} => ~driverHolds
    /\ pc \in {"readinto", "exit"} => driverHolds /\ locked
    /\ ~(driverHolds /\ otherHolds)
    /\ otherHolds => locked

\* a call failed out of range and the other user transfers on the bus
C6_Witness ==
    /\ Done
    /\ FailedWith("Total thermoelectric voltage out of range")
    /\ ~driverHolds
    /\ otherHolds
    /\ otherSent > 0

(* C7 as stated: each table is keyed by a range [low, high), lower limit   *)
(* included and upper limit excluded.                                      *)
C7_HalfOpenRanges ==
    Done /\ VTOTAL # <<>> =>
        LET v == VTOTAL[1] IN
        /\ outcome.table = 1 <=> (-589100 <= v /\ v < 0)
        /\ outcome.table = 2 <=> (0 <= v /\ v < 2064400)
        /\ outcome.table = 3 <=> (2064400 <= v /\ v < 5488600)

\* the ranges of the three tables: (low, high], the first one [low, high]
RangeOf(k) ==
    CASE k = 1 -> [low |-> -589100, high |-> 0, lowIncluded |-> TRUE]
      [] k = 2 -> [low |-> 0, high |-> 2064400, lowIncluded |-> FALSE]
      [] k = 3 -> [low |-> 2064400, high |-> 5488600, lowIncluded |-> FALSE]

InRange(k, v) ==
    /\ v <= RangeOf(k).high
    /\ IF RangeOf(k).lowIncluded THEN RangeOf(k).low <= v ELSE RangeOf(k).low < v

(* C7, amended: the tables are keyed by the ranges [-5.891, 0],            *)
(* (0, 20.644] and (20.644, 54.886] (upper limit included; lower limit     *)
(* included in the first range only); the ranges are pairwise disjoint,    *)
(* they cover -5.891 mV to 54.886 mV without a gap, and every VTOTAL       *)
(* selects at most one table, the one whose range holds it.                *)
C7_Ranges ==
    Done /\ VTOTAL # <<>> =>
        LET v == VTOTAL[1]
            holding == { k \in 1..3 : InRange(k, v) }
        IN  /\ Cardinality(holding) <= 1
            /\ -589100 <= v /\ v <= 5488600 => Cardinality(holding) = 1
            /\ \A k \in 1..3 : outcome.table = k <=> k \in holding
            /\ holding = {} <=> outcome.kind = "error"

\* VTOTAL exactly 0 selects the first table
C7_Witness ==
    /\ Done
    /\ VTOTAL = <<0>>
    /\ outcome.kind = "value"
    /\ outcome.table = 1

(* C8: VREF is computed with the coefficient set that has the exponential  *)
(* term exactly when the reference value W2 >> 4 of the second frame is    *)
(* >= 0 (TAMB >= 0, TAMB = 0 included) and with the 10-term set without it *)
(* exactly when it is negative.                                            *)
C8_VrefSet ==
    Done /\ VTOTAL # <<>> =>
        /\ vrefSet = "exp" <=> FloorShift(W2(frames[2]), 4) >= 0
        /\ vrefSet = "plain" <=> FloorShift(W2(frames[2]), 4) < 0

\* TAMB = 0 used the set with the exponential term
C8_Witness ==
    /\ Done
    /\ VTOTAL # <<>>
    /\ W2(frames[2]) = 0
    /\ vrefSet = "exp"

(* C9: a call's outcome depends only on the frames of its own bus          *)
(* transactions: a finished call that read the same frames through the     *)
(* same property as an earlier call has the same outcome, and a call whose *)
(* frames carry no fault bit does not fail with a fault, whatever earlier  *)
(* calls left in the buffer.                                               *)
C9_OwnFramesOnly ==
    Done =>
        /\ prev.entry = entry /\ prev.frames = frames => prev.outcome = outcome
        /\ (\A i \in 1..Len(frames) : FaultBits(frames[i]) = {}) =>
              outcome.error \notin FaultMessages

\* two temperature_NIST calls read the same two frames, with the same result
C9_Witness ==
    /\ Done
    /\ entry = "temperature_NIST"
    /\ prev.entry = "temperature_NIST"
    /\ prev.frames = frames
    /\ Len(frames) = 2
    /\ outcome.kind = "value"
    /\ prev.outcome = outcome

(* C10: with several fault bits set one fault is reported, by the priority *)
(* open circuit > short to ground > short to power > generic; "faulty      *)
(* reading" is reported only when data[1] bit 0 is set and bits 0-2 of     *)
(* data[3] are clear; a frame without fault bits never fails with a fault, *)
(* whatever its other bits.                                                *)
C10_Priority ==
    Done =>
        LET f == LastFrame IN
        /\ OpenBit(f) => FailedWith("thermocouple not connected")
        /\ ~OpenBit(f) /\ GroundBit(f) => FailedWith("short circuit to ground")
        /\ ~OpenBit(f) /\ ~GroundBit(f) /\ PowerBit(f) =>
              FailedWith("short circuit to power")
        /\ outcome.error = "faulty reading" <=>
              GenericBit(f) /\ f[4] % 8 = 0
        /\ FaultBits(f) = {} => outcome.error \notin FaultMessages

\* ground, power and generic bits set together report the short to ground
C10_Witness ==
    /\ Done
    /\ LastFrame = <<12, 209, 0, 6>>
    /\ FailedWith("short circuit to ground")

====
